---- MODULE Spec2Model ----
(***************************************************************************)
(* Geometry and highlighting core of the chart library:                    *)
(*   BarHighlighter       (highlight/BarHighlighter.ts)                    *)
(*   HorizontalBarBuffer  (buffer/HorizontalBarBuffer.ts)                  *)
(*   BarChart             (charts/BarChart.ts)                             *)
(*   BubbleChartRenderer  (renderer/BubbleChartRenderer.ts)                *)
(*                                                                         *)
(* A nullable reference is a sequence of length at most one: <<>> is null, *)
(* <<v>> is a reference to v.                                              *)
(***************************************************************************)
EXTENDS Integers, Sequences, FiniteSets, TLC

\* ------------------------------------------------------------------ bounds
\* most ranges of one stacked entry in the range-lookup specification
MaxRanges == 3
\* largest range bound of the range-lookup specification
MaxVal == 2
\* most stack components of one bar entry
MaxStack == 2
\* most entries of a data set
MaxEntries == 2
\* most entries of a bubble data set
MaxBubbles == 2
\* largest magnitude of a bar value or stack value
MaxComp == 1
\* the animation phases are the multiples of 1 / PhaseDen in [0, 1]
PhaseDen == 2

Null == <<>>
Some(v) == <<v>>
IsNull(o) == o = <<>>
Val(o) == o[1]

Phases == 0..PhaseDen

SeqsUpTo(S, n) == UNION {[1..k -> S] : k \in 0..n}

Abs(v) == IF v < 0 THEN 0 - v ELSE v
Max(a, b) == IF a >= b THEN a ELSE b
Min(a, b) == IF a <= b THEN a ELSE b

VARIABLES
    \* --- BarHighlighter.getClosestStackIndex called on its own
    ranges,         \* nullable sequence of <<start, end>> pairs
    value,          \* the value looked up
    stackIndex,     \* nullable result of the call
    pcS             \* "call" before the call, "done" after it

VARIABLES
    \* --- BarChart and its BarHighlighter
    mHighlightFullBarEnabled,   \* BarChart.mHighlightFullBarEnabled
    mData,          \* BarChart.mData: nullable sequence of bar data sets
    heap,           \* the Highlight objects alive in the last call, by reference
    hl              \* the last highlight call: its inputs and what it returned

VARIABLES
    \* --- HorizontalBarBuffer.feed
    data,           \* the IBarDataSet fed: a sequence of nullable entries
    phaseX,         \* BarBuffer.phaseX, numerator over PhaseDen
    phaseY,         \* BarBuffer.phaseY, numerator over PhaseDen
    mInverted,      \* BarBuffer.mInverted
    mContainsStacks,\* BarBuffer.mContainsStacks
    mBarWidth,      \* BarBuffer.mBarWidth
    buffer,         \* BarBuffer.buffer: the rectangles addBar wrote
    index,          \* BarBuffer.index, in rectangles
    size,           \* the local size of feed, numerator over PhaseDen
    i,              \* the loop index of feed
    pcF,            \* "idle", "loop", "done" or "failed" (feed threw)
    fed,            \* history: the entries fed and where their rectangles are
    readBeyond      \* history: an index at or beyond the entry count was read

VARIABLES
    \* --- BubbleChartRenderer.drawDataSet
    bubbleSet,      \* the BubbleDataSet: nullable entries, isNormalizeSizeEnabled()
    mXBounds,       \* mXBounds after set(): min and range
    scroll,         \* the pixel of x = 0 under the chart's transformer
    animPhaseY,     \* mAnimator.getPhaseY(), numerator over PhaseDen
    canvas,         \* the circles drawn on the canvas by the last build
    pcB             \* "idle", "done" or "failed" (drawDataSet threw)

VARIABLES
    \* --- BarChart.groupBars
    groupCalls,     \* history: the calls groupBars made, in order
    pcG             \* "idle", "done" or "threw" (groupBars threw the Error)

varsStack == <<ranges, value, stackIndex, pcS>>
varsHigh == <<mHighlightFullBarEnabled, mData, heap, hl>>

varsFeed == <<data, phaseX, phaseY, mInverted, mContainsStacks, mBarWidth,
              buffer, index, size, i, pcF, fed, readBeyond>>

varsBubble == <<bubbleSet, mXBounds, scroll, animPhaseY, canvas, pcB>>

varsGroup == <<groupCalls, pcG>>

vars == <<varsStack, varsHigh, varsFeed, varsBubble, varsGroup>>

\* groupBars is not part of the specification
GroupIdle == groupCalls = <<>> /\ pcG = "off"

\* no bubble renderer is part of the specification
BubbleIdle ==
    /\ bubbleSet = [entries |-> <<>>, normalizeSize |-> FALSE]
    /\ mXBounds = [min |-> 0, range |-> 0]
    /\ scroll = 0 /\ animPhaseY = 0 /\ canvas = <<>> /\ pcB = "off"

\* no bar buffer is part of the specification
FeedIdle ==
    /\ data = <<>> /\ phaseX = 0 /\ phaseY = 0
    /\ mInverted = FALSE /\ mContainsStacks = FALSE /\ mBarWidth = 0
    /\ buffer = <<>> /\ index = 0 /\ size = 0 /\ i = 0 /\ pcF = "off"
    /\ fed = <<>> /\ readBeyond = FALSE

\* ------------------------------------------------- BarHighlighter (lookup)

\* Array.prototype.includes on a two-element array [start, end]: membership
\* of the value among the elements of the array.
includes(range, v) == \E n \in 1..Len(range) : range[n] = v

\* the first index (0-based) whose range includes the value, or -1
RECURSIVE firstIncluding(_, _, _)
firstIncluding(rs, v, k) ==
    IF k >= Len(rs) THEN 0 - 1
    ELSE IF includes(rs[k + 1], v) THEN k
    ELSE firstIncluding(rs, v, k + 1)

\* faulty variant: the fallback compares against the end of the first range
getClosestStackIndex_firstRange(rs, v) ==
    IF IsNull(rs) \/ Len(Val(rs)) = 0 THEN 0
    ELSE LET r == Val(rs)
             hit == firstIncluding(r, v, 0)
             length == Max(Len(r) - 1, 0)
         IN  IF hit >= 0 THEN hit
             ELSE IF v > r[1][2] THEN length ELSE 0

\* getClosestStackIndex(ranges, value); rs is the nullable ranges array
getClosestStackIndex(rs, v) ==
    IF IsNull(rs) \/ Len(Val(rs)) = 0 THEN 0
    ELSE LET r == Val(rs)
             hit == firstIncluding(r, v, 0)
             length == Max(Len(r) - 1, 0)
         IN  IF hit >= 0 THEN hit
             ELSE IF v > r[length + 1][2] THEN length ELSE 0

\* the [start, end] pairs a stacked entry can carry: start <= end
RangeVals == (0 - 1)..MaxVal
RangePairs == {p \in RangeVals \X RangeVals : p[1] <= p[2]}
LookupVals == (0 - 2)..(MaxVal + 1)

StackInit ==
    /\ ranges \in {Null} \cup {Some(r) : r \in SeqsUpTo(RangePairs, MaxRanges)}
    /\ value \in LookupVals
    /\ stackIndex = Null
    /\ pcS = "call"

CallGetClosestStackIndex ==
    /\ pcS = "call"
    /\ stackIndex' = Some(getClosestStackIndex(ranges, value))
    /\ pcS' = "done"
    /\ UNCHANGED <<ranges, value>>

StackIdle == ranges = Null /\ value = 0 /\ stackIndex = Null /\ pcS = "idle"

\* ------------------------------------------------- BarHighlighter, BarChart

\* IBarDataSet as the highlighter reads it: isStacked(), xProperty, yProperty,
\* getAxisDependency()
SetOpts ==
    {[stacked |-> s, xProperty |-> p[1], yProperty |-> p[2], axis |-> p[3]] :
        s \in BOOLEAN, p \in {<<"x", "y", "LEFT">>, <<"t", "v", "RIGHT">>}}
DataChoices == {<<s>> : s \in SetOpts} \cup {<<s, t>> : s \in SetOpts, t \in SetOpts}

\* the [start, end] pairs of the entries the highlighter locates
EntryRangePairs == {p \in ((0 - 1)..1) \X ((0 - 1)..1) : p[1] <= p[2]}

\* a bar entry: x, y and the same values under the alternative property
\* names t, v; yVals is null for an entry that is not stacked
PlainEntry == [x |-> 1, y |-> 3, t |-> 5, v |-> 7, yVals |-> Null, ranges |-> <<>>]
StackedEntry(rs) ==
    [x |-> 1, y |-> 3, t |-> 5, v |-> 7,
     yVals |-> Some([n \in 1..Len(rs) |-> rs[n][2] - rs[n][1]]), ranges |-> rs]
EntryOpts == {PlainEntry} \cup {StackedEntry(rs) : rs \in SeqsUpTo(EntryRangePairs, MaxStack)}

TouchVals == [x : {0, 1}, y : (0 - 2)..2]

\* Transformer.getPixelForValues of the transformer of an axis
getPixelForValues(axis, x, y) ==
    [x |-> 10 * x + 5, y |-> IF axis = "LEFT" THEN 100 - 10 * y ELSE 200 - 20 * y]

\* what a call returns: null, a reference into the heap, or a thrown TypeError
RetNull == [kind |-> "null", ref |-> 0]
RetRef(r) == [kind |-> "ref", ref |-> r]
RetThrow == [kind |-> "TypeError", ref |-> 0]
Out(h, r) == [heap |-> h, ret |-> r]

\* the candidates super.getHighlight can return for the data sets
Candidates(sets) ==
    {[x |-> cx, y |-> 3, xPx |-> getPixelForValues(sets[d + 1].axis, cx, 3).x,
      yPx |-> getPixelForValues(sets[d + 1].axis, cx, 3).y,
      dataSetIndex |-> d, stackIndex |-> Null, axis |-> sets[d + 1].axis] :
        cx \in {0, 1}, d \in 0..(Len(sets) - 1)}

\* faulty variant: the entry's x and y are replaced by the touch-derived values
getStackedHighlight_touchValues(h, high, set, xVal, yVal, found) ==
    IF IsNull(found) THEN Out(h, RetNull)
    ELSE LET entry == Val(found) IN
         IF IsNull(entry.yVals) THEN Out(h, RetRef(high))
         ELSE IF Len(entry.ranges) > 0
              THEN LET si == getClosestStackIndex(Some(entry.ranges), yVal) IN
                   IF si + 1 \notin 1..Len(entry.ranges) THEN Out(h, RetThrow)
                   ELSE LET pixels == getPixelForValues(set.axis, h[high].x,
                                                        entry.ranges[si + 1][2])
                        IN  Out(Append(h, [x |-> xVal, y |-> yVal,
                                           xPx |-> pixels.x, yPx |-> pixels.y,
                                           dataSetIndex |-> h[high].dataSetIndex,
                                           stackIndex |-> Some(si),
                                           axis |-> h[high].axis]),
                                RetRef(Len(h) + 1))
              ELSE Out(h, RetNull)

\* faulty variant: the located entry is not checked for null before entry.yVals
getStackedHighlight_noEntryCheck(h, high, set, xVal, yVal, found) ==
    IF IsNull(found) THEN Out(h, RetThrow)
    ELSE LET entry == Val(found) IN
         IF IsNull(entry.yVals) THEN Out(h, RetRef(high))
         ELSE IF Len(entry.ranges) > 0
              THEN Out(h, RetRef(high))
              ELSE Out(h, RetNull)

\* faulty variant: stack index 0 is written into the candidate, which is
\* returned for every located entry
getStackedHighlight_marksCandidate(h, high, set, xVal, yVal, found) ==
    IF IsNull(found) THEN Out(h, RetNull)
    ELSE Out([h EXCEPT ![high].stackIndex = Some(0)], RetRef(high))

\* getStackedHighlight(high, set, xVal, yVal); found is what
\* set.getEntryForXValue(xVal, yVal) returned; a read of a property of
\* undefined throws
getStackedHighlight(h, high, set, xVal, yVal, found) ==
    IF IsNull(found) THEN Out(h, RetNull)
    ELSE LET entry == Val(found) IN
         IF IsNull(entry.yVals) THEN Out(h, RetRef(high))
         ELSE IF Len(entry.ranges) > 0
              THEN LET si == getClosestStackIndex(Some(entry.ranges), yVal) IN
                   IF si + 1 \notin 1..Len(entry.ranges) THEN Out(h, RetThrow)
                   ELSE LET pixels == getPixelForValues(set.axis, h[high].x,
                                                        entry.ranges[si + 1][2])
                        IN  Out(Append(h, [x |-> entry[set.xProperty],
                                           y |-> entry[set.yProperty],
                                           xPx |-> pixels.x, yPx |-> pixels.y,
                                           dataSetIndex |-> h[high].dataSetIndex,
                                           stackIndex |-> Some(si),
                                           axis |-> h[high].axis]),
                                RetRef(Len(h) + 1))
              ELSE Out(h, RetNull)

\* getHighlight(x, y); base is what super.getHighlight(x, y) returned (a
\* nullable reference), pos is getValsForTouch(x, y)
getHighlight(h, base, sets, pos, found) ==
    IF IsNull(base) THEN Out(h, RetNull)
    ELSE LET high == Val(base)
             set == sets[h[high].dataSetIndex + 1]
         IN  IF set.stacked
             THEN getStackedHighlight(h, high, set, pos.x, pos.y, found)
             ELSE Out(h, RetRef(high))

\* faulty variant: the stack index is deleted from the highlighter's own object
getHighlightByTouchPoint_inPlace(barData, fullBar, h, base, pos, found) ==
    IF IsNull(barData) THEN Out(h, RetNull)
    ELSE LET r == getHighlight(h, base, Val(barData), pos, found) IN
         IF r.ret.kind # "ref" \/ ~fullBar THEN r
         ELSE Out([r.heap EXCEPT ![r.ret.ref].stackIndex = Null], r.ret)

\* BarChart.getHighlightByTouchPoint(x, y)
getHighlightByTouchPoint(barData, fullBar, h, base, pos, found) ==
    IF IsNull(barData) THEN Out(h, RetNull)
    ELSE LET r == getHighlight(h, base, Val(barData), pos, found) IN
         IF r.ret.kind = "TypeError" THEN r
         ELSE IF r.ret.kind = "null" \/ ~fullBar THEN r
         ELSE LET hh == r.heap[r.ret.ref] IN
              Out(Append(r.heap, [x |-> hh.x, y |-> hh.y, xPx |-> hh.xPx,
                                  yPx |-> hh.yPx, dataSetIndex |-> hh.dataSetIndex,
                                  stackIndex |-> Null, axis |-> hh.axis]),
                  RetRef(Len(r.heap) + 1))

NoCall ==
    [op |-> "none", base |-> Null, before |-> <<>>, pos |-> [x |-> 0, y |-> 0],
     found |-> Null, inner |-> RetNull, innerHeap |-> <<>>, ret |-> RetNull]

HighIdle ==
    /\ mHighlightFullBarEnabled = FALSE
    /\ mData = Null
    /\ heap = <<>>
    /\ hl = NoCall

HighInit ==
    /\ mHighlightFullBarEnabled = FALSE
    /\ mData \in {Null} \cup {Some(d) : d \in DataChoices}
    /\ heap = <<>>
    /\ hl = NoCall

\* BarChart.setHighlightFullBarEnabled(enabled)
SetHighlightFullBarEnabled ==
    /\ hl.op = "none"
    /\ \E enabled \in BOOLEAN :
          /\ enabled # mHighlightFullBarEnabled
          /\ mHighlightFullBarEnabled' = enabled
    /\ UNCHANGED <<mData, heap, hl>>

\* the objects super.getHighlight leaves on the heap, and its return value
BaseResults(sets) ==
    {[heap |-> <<>>, base |-> Null]} \cup
    {[heap |-> <<c>>, base |-> Some(1)] : c \in Candidates(sets)}

\* a call of BarHighlighter.getHighlight on the chart's highlighter
GetHighlight ==
    /\ hl.op = "none"
    /\ ~IsNull(mData)
    /\ \E b \in BaseResults(Val(mData)), pos \in TouchVals,
          found \in {Null} \cup {Some(e) : e \in EntryOpts} :
          LET r == getHighlight(b.heap, b.base, Val(mData), pos, found) IN
          /\ heap' = r.heap
          /\ hl' = [op |-> "getHighlight", base |-> b.base, before |-> b.heap,
                    pos |-> pos, found |-> found, inner |-> r.ret,
                    innerHeap |-> r.heap, ret |-> r.ret]
    /\ UNCHANGED <<mHighlightFullBarEnabled, mData>>

\* a call of BarChart.getHighlightByTouchPoint
GetHighlightByTouchPoint ==
    /\ hl.op = "none"
    /\ \E b \in (IF IsNull(mData) THEN {[heap |-> <<>>, base |-> Null]}
                 ELSE BaseResults(Val(mData))),
          pos \in TouchVals,
          found \in {Null} \cup {Some(e) : e \in EntryOpts} :
          LET r == getHighlightByTouchPoint(mData, mHighlightFullBarEnabled,
                                            b.heap, b.base, pos, found)
              in == IF IsNull(mData) THEN Out(b.heap, RetNull)
                    ELSE getHighlight(b.heap, b.base, Val(mData), pos, found)
          IN
          /\ heap' = r.heap
          /\ hl' = [op |-> "getHighlightByTouchPoint", base |-> b.base,
                    before |-> b.heap, pos |-> pos, found |-> found,
                    inner |-> in.ret, innerHeap |-> in.heap, ret |-> r.ret]
    /\ UNCHANGED <<mHighlightFullBarEnabled, mData>>

\* the caller is done with the Highlight of the last call
DropHighlight ==
    /\ hl.op # "none"
    /\ heap' = <<>>
    /\ hl' = NoCall
    /\ UNCHANGED <<mHighlightFullBarEnabled, mData>>

InitHigh == HighInit /\ StackIdle /\ FeedIdle /\ BubbleIdle /\ GroupIdle
NextHigh ==
    \/ SetHighlightFullBarEnabled /\ UNCHANGED <<varsStack, varsFeed, varsBubble, varsGroup>>
    \/ GetHighlight /\ UNCHANGED <<varsStack, varsFeed, varsBubble, varsGroup>>
    \/ GetHighlightByTouchPoint /\ UNCHANGED <<varsStack, varsFeed, varsBubble, varsGroup>>
    \/ DropHighlight /\ UNCHANGED <<varsStack, varsFeed, varsBubble, varsGroup>>
SpecHigh == InitHigh /\ [][NextHigh]_vars

\* ------------------------------------------------------ BarChart.groupBars

\* the arguments of groupBars: fromX, groupSpace and barSpace
GroupArgs == [fromX : {0, 1}, groupSpace : {0, 1}, barSpace : {0, 1}]

\* the two calls groupBars makes: BarData.groupBars on the chart's data, and
\* the chart's notifyDataSetChanged
CallGroupBars(barData, args) ==
    [op |-> "BarData.groupBars", on |-> barData, args |-> args]
CallNotifyDataSetChanged ==
    [op |-> "notifyDataSetChanged", on |-> <<>>, args |-> <<>>]

\* faulty variant: without data the chart skips the grouping, notifies and
\* returns
groupBars_notifiesWithoutData(barData, args, calls) ==
    IF barData = Null
    THEN [calls |-> Append(calls, CallNotifyDataSetChanged), threw |-> FALSE]
    ELSE [calls |-> calls \o <<CallGroupBars(Val(barData), args),
                                CallNotifyDataSetChanged>>,
          threw |-> FALSE]

\* BarChart.groupBars(fromX, groupSpace, barSpace): the calls made after
\* `calls`, and whether the Error was thrown
groupBars(barData, args, calls) ==
    IF barData = Null
    THEN [calls |-> calls, threw |-> TRUE]
    ELSE [calls |-> calls \o <<CallGroupBars(Val(barData), args),
                                CallNotifyDataSetChanged>>,
          threw |-> FALSE]

GroupInit == HighInit /\ groupCalls = <<>> /\ pcG = "idle"

GroupBars ==
    /\ pcG = "idle"
    /\ \E args \in GroupArgs :
          LET r == groupBars(mData, args, groupCalls) IN
          /\ groupCalls' = r.calls
          /\ pcG' = IF r.threw THEN "threw" ELSE "done"
    /\ UNCHANGED varsHigh

InitGroup == GroupInit /\ StackIdle /\ FeedIdle /\ BubbleIdle
NextGroup ==
    \/ GroupBars /\ UNCHANGED <<varsStack, varsFeed, varsBubble>>
    \/ SetHighlightFullBarEnabled /\ UNCHANGED <<varsStack, varsFeed, varsBubble, varsGroup>>
SpecGroup == InitGroup /\ [][NextGroup]_vars

\* ----------------------------------------------------- HorizontalBarBuffer
\* Numbers of the buffer are exact fractions.  A value along the main axis is
\* kept as its numerator over PhaseDen (v is v * PhaseDen, v times a phase
\* p / PhaseDen is v * p); a value along the cross axis is kept as its
\* numerator over 2 (x - barWidth / 2 is 2 * x - barWidth).

CompVals == (0 - MaxComp)..MaxComp

\* BarEntry.getNegativeSum(): the sum of the magnitudes of the negative
\* stack values
RECURSIVE negativeSum(_, _)
negativeSum(vals, k) ==
    IF k > Len(vals) THEN 0
    ELSE (IF vals[k] < 0 THEN Abs(vals[k]) ELSE 0) + negativeSum(vals, k + 1)
getNegativeSum(e) == negativeSum(Val(e.yVals), 1)

RECURSIVE sum(_, _)
sum(vals, k) == IF k > Len(vals) THEN 0 ELSE vals[k] + sum(vals, k + 1)

\* the bar entries of a data set: x, y and the nullable stack values
BarPlain(x, y) == [x |-> x, y |-> y, yVals |-> Null]
BarStacked(x, vals) == [x |-> x, y |-> sum(vals, 1), yVals |-> Some(vals)]
BarShapes ==
    {BarPlain(0, y) : y \in CompVals}
        \cup {BarStacked(0, vals) : vals \in SeqsUpTo(CompVals, MaxStack)}
\* the entry of a shape at index n (0-based) of a data set: x is the index
At(shape, n) == [shape EXCEPT !.x = n]

\* the rectangle of an entry that is not stacked, lines 30 to 54
barOfValue(e, inverted, pY, barWidth) ==
    LET bottom == 2 * e.x - barWidth
        top == 2 * e.x + barWidth
        y == e.y
        left == IF inverted THEN (IF y >= 0 THEN y ELSE 0)
                ELSE (IF y <= 0 THEN y ELSE 0)
        right == IF inverted THEN (IF y <= 0 THEN y ELSE 0)
                 ELSE (IF y >= 0 THEN y ELSE 0)
    IN  IF right > 0
        THEN [left |-> left * PhaseDen, top |-> top,
              right |-> right * pY, bottom |-> bottom]
        ELSE [left |-> left * pY, top |-> top,
              right |-> right * PhaseDen, bottom |-> bottom]

\* the rectangles of stack values k.. of an entry, lines 63 to 99
RECURSIVE fillStack(_, _, _, _, _, _, _, _)
fillStack(vals, k, posY, negY, x, inverted, pY, barWidth) ==
    IF k > Len(vals) THEN <<>>
    ELSE LET v == vals[k]
             y == IF v >= 0 THEN posY ELSE negY
             yStart == IF v >= 0 THEN posY + v ELSE negY + Abs(v)
             posNext == IF v >= 0 THEN yStart ELSE posY
             negNext == IF v >= 0 THEN negY ELSE negY + Abs(v)
             bottom == 2 * x - barWidth
             top == 2 * x + barWidth
             left == IF inverted THEN (IF y >= yStart THEN y ELSE yStart)
                     ELSE (IF y <= yStart THEN y ELSE yStart)
             right == IF inverted THEN (IF y <= yStart THEN y ELSE yStart)
                      ELSE (IF y >= yStart THEN y ELSE yStart)
         IN  <<[left |-> left * pY, top |-> top,
                right |-> right * pY, bottom |-> bottom]>>
             \o fillStack(vals, k + 1, posNext, negNext, x, inverted, pY, barWidth)

\* faulty variant: the negative cursor starts at zero
barsOfStack_negFromZero(e, inverted, pY, barWidth) ==
    fillStack(Val(e.yVals), 1, 0, 0, e.x, inverted, pY, barWidth)

\* the rectangles of a stacked entry, lines 58 to 99
barsOfStack(e, inverted, pY, barWidth) ==
    fillStack(Val(e.yVals), 1, 0, 0 - getNegativeSum(e), e.x, inverted, pY, barWidth)

\* the rectangles one entry adds, lines 24 to 100
barsOfEntry(e, stacks, inverted, pY, barWidth) ==
    IF ~stacks \/ IsNull(e.yVals)
    THEN <<barOfValue(e, inverted, pY, barWidth)>>
    ELSE barsOfStack(e, inverted, pY, barWidth)

\* the data sets fed: entries of one shape, at any index possibly null
FeedInit ==
    /\ \E shape \in BarShapes, n \in 0..MaxEntries :
          data \in [1..n -> {Null, Some(shape)}]
    /\ phaseX \in Phases
    /\ phaseY \in Phases
    /\ mInverted \in BOOLEAN
    /\ mContainsStacks \in BOOLEAN
    /\ mBarWidth = 1
    /\ buffer = <<>> /\ index = 0 /\ size = 0 /\ i = 0 /\ pcF = "idle"
    /\ fed = <<>> /\ readBeyond = FALSE

\* feed(data), lines 13 and 14: the scan bound is computed once
FeedStart ==
    /\ pcF = "idle"
    /\ size' = Len(data) * phaseX
    /\ i' = 0
    /\ pcF' = "loop"
    /\ UNCHANGED <<data, phaseX, phaseY, mInverted, mContainsStacks, mBarWidth,
                   buffer, index, fed, readBeyond>>

\* one pass of the loop of lines 16 to 101 over an index the data set holds
FeedEntry ==
    /\ pcF = "loop"
    /\ i * PhaseDen < size
    /\ i < Len(data)
    /\ LET e == data[i + 1] IN
       IF IsNull(e)
       THEN UNCHANGED <<buffer, index, fed>>
       ELSE LET bars == barsOfEntry(At(Val(e), i), mContainsStacks, mInverted,
                                    phaseY, mBarWidth)
            IN  /\ buffer' = buffer \o bars
                /\ index' = index + Len(bars)
                /\ fed' = Append(fed, [i |-> i, e |-> At(Val(e), i),
                                       first |-> Len(buffer) + 1, n |-> Len(bars)])
    /\ i' = i + 1
    /\ UNCHANGED <<data, phaseX, phaseY, mInverted, mContainsStacks, mBarWidth,
                   size, pcF, readBeyond>>

\* one pass of the loop over an index the data set no longer holds: the
\* data set answers null, and the pass is skipped, or undefined, and e.x
\* throws
FeedBeyond ==
    /\ pcF = "loop"
    /\ i * PhaseDen < size
    /\ i >= Len(data)
    /\ readBeyond' = TRUE
    /\ \/ i' = i + 1 /\ pcF' = pcF
       \/ i' = i /\ pcF' = "failed"
    /\ UNCHANGED <<data, phaseX, phaseY, mInverted, mContainsStacks, mBarWidth,
                   buffer, index, size, fed>>

\* the loop ends, line 102: reset()
FeedEnd ==
    /\ pcF = "loop"
    /\ ~(i * PhaseDen < size)
    /\ index' = 0
    /\ pcF' = "done"
    /\ UNCHANGED <<data, phaseX, phaseY, mInverted, mContainsStacks, mBarWidth,
                   buffer, size, i, fed, readBeyond>>

\* the chart's data is replaced by a shorter one while a build is pending
RemoveEntry ==
    /\ pcF = "loop"
    /\ Len(data) > 0
    /\ data' = SubSeq(data, 1, Len(data) - 1)
    /\ UNCHANGED <<phaseX, phaseY, mInverted, mContainsStacks, mBarWidth,
                   buffer, index, size, i, pcF, fed, readBeyond>>

InitFeed == FeedInit /\ StackIdle /\ HighIdle /\ BubbleIdle /\ GroupIdle
NextFeed ==
    \/ FeedStart /\ UNCHANGED <<varsStack, varsHigh, varsBubble, varsGroup>>
    \/ FeedEntry /\ UNCHANGED <<varsStack, varsHigh, varsBubble, varsGroup>>
    \/ FeedBeyond /\ UNCHANGED <<varsStack, varsHigh, varsBubble, varsGroup>>
    \/ FeedEnd /\ UNCHANGED <<varsStack, varsHigh, varsBubble, varsGroup>>
    \/ RemoveEntry /\ UNCHANGED <<varsStack, varsHigh, varsBubble, varsGroup>>
SpecFeed == InitFeed /\ [][NextFeed]_vars

\* ----------------------------------------------------- BubbleChartRenderer
\* Pixel values along x are whole numbers; pixel values along y are kept as
\* their numerator over PhaseDen, since they carry the phase.  The radius of
\* a circle is kept as its numerator over 2, and so are the edges of a circle
\* the bounds checks get: over 2 along x, over 2 * PhaseDen along y.

\* ViewPortHandler: the content rectangle and its bounds checks
contentRect == [left |-> 0, top |-> 0, right |-> 12, bottom |-> 10]
isInBoundsLeft(x) == 2 * contentRect.left <= x
isInBoundsRight(x) == 2 * contentRect.right >= x
isInBoundsTop(y) == 2 * contentRect.top * PhaseDen <= y
isInBoundsBottom(y) == 2 * contentRect.bottom * PhaseDen >= y

\* Transformer.pointValuesToPixel: 8 pixels per unit of x from the scroll
\* offset, 10 pixels per unit of y upwards from the bottom
pixelX(offset, x) == offset + 8 * x
pixelY(y) == contentRect.bottom * PhaseDen - 10 * y

\* the bubble entries of a data set: x is the index of the entry
BubbleVals == [y : {0 - 1, 0, 2}, size : {0, 1, 4}]
BubbleSets == SeqsUpTo({Null} \cup {Some(e) : e \in BubbleVals}, MaxBubbles)

\* BubbleDataSet.getMaxSize(): the largest size among the entries
getMaxSize(entries) ==
    LET sizes == {Val(entries[n]).size : n \in {m \in DOMAIN entries : ~IsNull(entries[m])}}
    IN  IF sizes = {} THEN 0 ELSE CHOOSE s \in sizes : \A t \in sizes : t <= s

\* reference * Math.sqrt(entrySize / maxSize), for the sizes whose ratio has
\* a rational root
scaledRoot(reference, entrySize, maxSize) ==
    CHOOSE r \in 0..(reference * entrySize) :
        r * r * maxSize = reference * reference * entrySize

\* getShapeSize(entrySize, maxSize, reference, normalizeSize)
\* faulty variant: the size is never normalized
getShapeSize_unnormalized(entrySize, maxSize, reference, normalizeSize) ==
    reference * entrySize

getShapeSize(entrySize, maxSize, reference, normalizeSize) ==
    IF normalizeSize
    THEN (IF maxSize = 0 THEN reference
          ELSE scaledRoot(reference, entrySize, maxSize))
    ELSE reference * entrySize

\* the loop of lines 81 to 103 from index j on; circles is what was drawn so
\* far; a property read of a null entry throws
\* faulty variant: a circle beyond the right edge is skipped and the scan
\* goes on
cullEntry_skipRight(px, py, shapeHalf) ==
    IF ~isInBoundsTop(2 * py + shapeHalf * PhaseDen)
         \/ ~isInBoundsBottom(2 * py - shapeHalf * PhaseDen)
    THEN "continue"
    ELSE IF ~isInBoundsLeft(2 * px + shapeHalf) THEN "continue"
    ELSE IF ~isInBoundsRight(2 * px - shapeHalf) THEN "continue"
    ELSE "draw"

\* the bounds checks of the loop on the circle at (px, py) with radius
\* shapeHalf (over 2): go on with the next index, leave the loop, or draw
cullEntry(px, py, shapeHalf) ==
    IF ~isInBoundsTop(2 * py + shapeHalf * PhaseDen)
         \/ ~isInBoundsBottom(2 * py - shapeHalf * PhaseDen)
    THEN "continue"
    ELSE IF ~isInBoundsLeft(2 * px + shapeHalf) THEN "continue"
    ELSE IF ~isInBoundsRight(2 * px - shapeHalf) THEN "break"
    ELSE "draw"

RECURSIVE drawEntries(_, _, _, _, _, _, _, _, _)
drawEntries(entries, j, last, offset, pY, maxSize, referenceSize, normalizeSize, circles) ==
    IF j > last THEN [circles |-> circles, threw |-> FALSE]
    ELSE IF j >= Len(entries) \/ IsNull(entries[j + 1])
         THEN [circles |-> circles, threw |-> TRUE]
    ELSE LET entry == Val(entries[j + 1])
             px == pixelX(offset, j)
             py == pixelY(entry.y * pY)
             \* shapeHalf, over 2
             shapeHalf == getShapeSize(entry.size, maxSize, referenceSize,
                                       normalizeSize)
             next(c) == drawEntries(entries, j + 1, last, offset, pY, maxSize,
                                    referenceSize, normalizeSize, c)
         IN  LET verdict == cullEntry(px, py, shapeHalf) IN
             IF verdict = "continue" THEN next(circles)
             ELSE IF verdict = "break"
             THEN [circles |-> circles, threw |-> FALSE]
             ELSE next(Append(circles, [j |-> j, x |-> px, y |-> py,
                                        r |-> shapeHalf]))

\* drawDataSet(c, dataSet) with the bounds mXBounds.set left
drawDataSet(set, bounds, offset, pY) ==
    IF Len(set.entries) < 1 THEN [circles |-> <<>>, threw |-> FALSE]
    ELSE LET maxBubbleWidth == Abs(pixelX(offset, 1) - pixelX(offset, 0))
             maxBubbleHeight == Abs(contentRect.bottom - contentRect.top)
             referenceSize == Min(maxBubbleHeight, maxBubbleWidth)
         IN  drawEntries(set.entries, bounds.min, bounds.range + bounds.min,
                         offset, pY, getMaxSize(set.entries), referenceSize,
                         set.normalizeSize, <<>>)

\* the index bounds XBounds.set computes for a data set: a window of indices
XBoundsOf(entries) ==
    IF Len(entries) = 0 THEN {[min |-> 0, range |-> 0]}
    ELSE {[min |-> a, range |-> b - a] :
            a \in 0..(Len(entries) - 1), b \in 0..(Len(entries) - 1)}
         \cap [min : Nat, range : Nat]

BubbleInit ==
    /\ bubbleSet \in [entries : BubbleSets, normalizeSize : BOOLEAN]
    /\ mXBounds \in XBoundsOf(bubbleSet.entries)
    /\ scroll \in {0 - 8, 0, 16}
    /\ animPhaseY \in Phases
    /\ canvas = <<>>
    /\ pcB = "idle"

\* a frame draws the data set
DrawDataSet ==
    /\ pcB = "idle"
    /\ LET r == drawDataSet(bubbleSet, mXBounds, scroll, animPhaseY) IN
       /\ canvas' = r.circles
       /\ pcB' = IF r.threw THEN "failed" ELSE "done"
    /\ UNCHANGED <<bubbleSet, mXBounds, scroll, animPhaseY>>

InitBubble == BubbleInit /\ StackIdle /\ HighIdle /\ FeedIdle /\ GroupIdle
NextBubble == DrawDataSet /\ UNCHANGED <<varsStack, varsHigh, varsFeed, varsGroup>>
SpecBubble == InitBubble /\ [][NextBubble]_vars

InitStack == StackInit /\ HighIdle /\ FeedIdle /\ BubbleIdle /\ GroupIdle
NextStack == CallGetClosestStackIndex /\ UNCHANGED <<varsHigh, varsFeed, varsBubble, varsGroup>>
SpecStack == InitStack /\ [][NextStack]_vars

\* --------------------------------------------------------- claims: lookup

\* start <= v <= end
contains(range, v) == range[1] <= v /\ v <= range[2]
Containing(r, v) == {n \in 1..Len(r) : contains(r[n], v)}
SetMin(S) == CHOOSE m \in S : \A n \in S : m <= n

\* C1: whenever some range [start, end] contains the value inclusively,
\* getClosestStackIndex returns the smallest index of such a range.
C1_FirstContainingRange ==
    (pcS = "done" /\ ~IsNull(ranges) /\ Containing(Val(ranges), value) # {})
        => Val(stackIndex) = SetMin(Containing(Val(ranges), value)) - 1

\* C5: when no range contains the value the result is the last index if the
\* value is greater than the end of the last range and 0 otherwise; null or
\* empty ranges give 0; the result is always in 0..max(length - 1, 0).
C5_FallbackIndex ==
    pcS = "done" =>
        /\ (IsNull(ranges) \/ Len(Val(ranges)) = 0) => Val(stackIndex) = 0
        /\ (~IsNull(ranges) /\ Len(Val(ranges)) > 0
              /\ Containing(Val(ranges), value) = {}) =>
                LET r == Val(ranges) IN
                Val(stackIndex) = IF value > r[Len(r)][2] THEN Len(r) - 1 ELSE 0
        /\ Val(stackIndex) >= 0
        /\ Val(stackIndex) <= Max((IF IsNull(ranges) THEN 0 ELSE Len(Val(ranges))) - 1, 0)

\* C5 witness: a value above every range selects the last of several ranges
C5_Witness ==
    /\ pcS = "done" /\ ~IsNull(ranges) /\ Len(Val(ranges)) >= 2
    /\ Containing(Val(ranges), value) = {}
    /\ value > Val(ranges)[Len(Val(ranges))][2]
    /\ Val(stackIndex) = Len(Val(ranges)) - 1

\* ------------------------------------------------------ claims: highlight

\* the last call went through BarHighlighter.getHighlight
HighlighterCalled == hl.op # "none" /\ ~IsNull(mData)
HasCandidate == HighlighterCalled /\ ~IsNull(hl.base)
Candidate == hl.before[Val(hl.base)]
CandidateSet == Val(mData)[Candidate.dataSetIndex + 1]
\* the call reached getStackedHighlight and the data set located an entry
StackedLookup == HasCandidate /\ CandidateSet.stacked
LocatedEntry == StackedLookup /\ ~IsNull(hl.found)

\* C6: getHighlight returns null, and throws nothing, when the base search
\* finds no candidate, when the stack-enabled data set locates no entry, and
\* when the located entry has stack values but no ranges.
C6_AbsentResult ==
    /\ (HighlighterCalled /\ IsNull(hl.base)) => hl.inner = RetNull
    /\ (StackedLookup /\ IsNull(hl.found)) => hl.inner = RetNull
    /\ (LocatedEntry /\ ~IsNull(Val(hl.found).yVals)
          /\ Len(Val(hl.found).ranges) = 0) => hl.inner = RetNull

\* C6 witness: an entry with (empty) stack values and empty ranges was located
C6_Witness ==
    /\ hl.op = "getHighlight" /\ LocatedEntry
    /\ ~IsNull(Val(hl.found).yVals) /\ Len(Val(hl.found).ranges) = 0
    /\ hl.ret = RetNull

\* C7: for a located entry with stack values and non-empty ranges the result
\* is a new Highlight: its stack index is getClosestStackIndex(ranges, yVal)
\* and indexes ranges, x and y are the entry's values under the data set's
\* xProperty and yProperty, the pixel position is the transform of
\* (candidate x, end of the selected range), data set index and axis are
\* the candidate's.
C7_StackedHighlight ==
    (LocatedEntry /\ ~IsNull(Val(hl.found).yVals) /\ Len(Val(hl.found).ranges) > 0) =>
        LET entry == Val(hl.found)
            si == getClosestStackIndex(Some(entry.ranges), hl.pos.y)
        IN
        /\ hl.inner.kind = "ref"
        /\ hl.inner.ref \in DOMAIN hl.innerHeap
        /\ hl.inner.ref \notin DOMAIN hl.before
        /\ si \in 0..(Len(entry.ranges) - 1)
        /\ LET res == hl.innerHeap[hl.inner.ref]
               px == getPixelForValues(CandidateSet.axis, Candidate.x,
                                       entry.ranges[si + 1][2])
           IN
           /\ res.stackIndex = Some(si)
           /\ res.x = entry[CandidateSet.xProperty]
           /\ res.y = entry[CandidateSet.yProperty]
           /\ res.xPx = px.x /\ res.yPx = px.y
           /\ res.dataSetIndex = Candidate.dataSetIndex
           /\ res.axis = Candidate.axis

\* C7 witness: a stacked highlight on the second of two ranges, of a data set
\* with the alternative property names, touched at another x than the entry's
C7_Witness ==
    /\ hl.op = "getHighlight" /\ LocatedEntry
    /\ Len(Val(hl.found).ranges) = 2
    /\ CandidateSet.xProperty = "t"
    /\ hl.pos.x # Val(hl.found).x
    /\ hl.ret.kind = "ref"
    /\ heap[hl.ret.ref].stackIndex = Some(1)
    /\ heap[hl.ret.ref].x = 5

\* C8: the candidate itself comes back, no field changed, when its data set
\* is not stack-enabled and when the located entry has no stack values.
C8_CandidateUnchanged ==
    /\ (HasCandidate /\ ~CandidateSet.stacked) =>
          /\ hl.inner = RetRef(Val(hl.base))
          /\ hl.innerHeap = hl.before
    /\ (LocatedEntry /\ IsNull(Val(hl.found).yVals)) =>
          /\ hl.inner = RetRef(Val(hl.base))
          /\ hl.innerHeap = hl.before

\* C8 witness: a stack-enabled data set located an entry without stack values
C8_Witness ==
    /\ hl.op = "getHighlight" /\ LocatedEntry /\ IsNull(Val(hl.found).yVals)
    /\ hl.ret = RetRef(1) /\ heap = hl.before

\* C9: getHighlightByTouchPoint returns none when the highlighter does;
\* with full-bar highlighting off it returns the highlighter's Highlight
\* itself; with it on it returns a Highlight without stack index whose
\* other fields are those of the highlighter's, which is left as it was.
C9_FullBarHighlight ==
    hl.op = "getHighlightByTouchPoint" =>
        /\ hl.inner.kind = "null" => (hl.ret = RetNull /\ heap = hl.innerHeap)
        /\ (hl.inner.kind = "ref" /\ ~mHighlightFullBarEnabled) =>
              (hl.ret = hl.inner /\ heap = hl.innerHeap)
        /\ (hl.inner.kind = "ref" /\ mHighlightFullBarEnabled) =>
              /\ hl.ret.kind = "ref"
              /\ hl.ret.ref \in DOMAIN heap
              /\ \A r \in DOMAIN hl.innerHeap : heap[r] = hl.innerHeap[r]
              /\ LET res == heap[hl.ret.ref]
                     h == hl.innerHeap[hl.inner.ref]
                 IN
                 /\ res.stackIndex = Null
                 /\ res.x = h.x /\ res.y = h.y
                 /\ res.xPx = h.xPx /\ res.yPx = h.yPx
                 /\ res.dataSetIndex = h.dataSetIndex /\ res.axis = h.axis

\* C9 witness: full-bar highlighting strips the stack index of a stacked
\* highlight, which keeps its own
C9_Witness ==
    /\ hl.op = "getHighlightByTouchPoint" /\ mHighlightFullBarEnabled
    /\ hl.inner.kind = "ref"
    /\ hl.innerHeap[hl.inner.ref].stackIndex = Some(1)
    /\ hl.ret.kind = "ref" /\ hl.ret.ref # hl.inner.ref
    /\ heap[hl.ret.ref].stackIndex = Null
    /\ heap[hl.inner.ref].stackIndex = Some(1)

\* ----------------------------------------------------- claims: bar buffer

\* the entries fed through the branch of line 28 for entries not stacked
FedPlain == {n \in DOMAIN fed : ~mContainsStacks \/ IsNull(fed[n].e.yVals)}
\* the entries fed through the stack branch of line 56
FedStacked == {n \in DOMAIN fed : mContainsStacks /\ ~IsNull(fed[n].e.yVals)}

\* C2: the rectangle of an entry that is not stacked has one main-axis edge
\* at 0 and the other at y * phaseY, for every sign of y, every phase and
\* both settings of the inverted flag, and spans x - barWidth / 2 to
\* x + barWidth / 2 across.
C2_ZeroAnchoredBar ==
    \A n \in FedPlain :
        LET e == fed[n].e
            r == buffer[fed[n].first]
        IN
        /\ fed[n].n = 1
        /\ \/ r.left = 0 /\ r.right = e.y * phaseY
           \/ r.right = 0 /\ r.left = e.y * phaseY
        /\ Min(r.top, r.bottom) = 2 * e.x - mBarWidth
        /\ Max(r.top, r.bottom) = 2 * e.x + mBarWidth

\* the sum of the magnitudes of the stack values before the k-th that have
\* its sign
RECURSIVE CursorBefore(_, _, _)
CursorBefore(vals, k, j) ==
    IF j >= k THEN 0
    ELSE (IF (vals[j] >= 0) = (vals[k] >= 0) THEN Abs(vals[j]) ELSE 0)
         + CursorBefore(vals, k, j + 1)
SumOfSign(vals, neg) ==
    LET S[j \in 0..Len(vals)] ==
            IF j = 0 THEN 0
            ELSE S[j - 1] + (IF (vals[j] < 0) = neg THEN Abs(vals[j]) ELSE 0)
    IN  S[Len(vals)]
\* the start of the span of the k-th stack value
SpanStart(vals, k) ==
    IF vals[k] >= 0 THEN CursorBefore(vals, k, 1)
    ELSE CursorBefore(vals, k, 1) - SumOfSign(vals, TRUE)

\* C3: a stacked entry with n stack values adds n rectangles in the order of
\* the values; the k-th spans its cursor to its cursor plus the magnitude of
\* the value (times the phase), the positive cursor starting at 0 and the
\* negative one at -negativeSum; spans of consecutive values of one sign
\* meet; positive spans lie in [0, positiveSum], negative ones in
\* [-negativeSum, 0].
C3_StackSpans ==
    \A n \in FedStacked :
        LET vals == Val(fed[n].e.yVals)
            rect(k) == buffer[fed[n].first + k - 1]
            lo(k) == Min(rect(k).left, rect(k).right)
            hi(k) == Max(rect(k).left, rect(k).right)
        IN
        /\ fed[n].n = Len(vals)
        /\ \A k \in 1..Len(vals) :
              /\ lo(k) = SpanStart(vals, k) * phaseY
              /\ hi(k) = (SpanStart(vals, k) + Abs(vals[k])) * phaseY
              /\ vals[k] >= 0 =>
                    (0 <= lo(k) /\ hi(k) <= SumOfSign(vals, FALSE) * phaseY)
              /\ vals[k] < 0 =>
                    ((0 - SumOfSign(vals, TRUE)) * phaseY <= lo(k) /\ hi(k) <= 0)
        /\ \A k \in 1..(Len(vals) - 1) :
              ((vals[k] >= 0) = (vals[k + 1] >= 0)) => hi(k) = lo(k + 1)

\* C3 witness: two negative stack values were fed at a phase above zero; the
\* first rectangle starts at -negativeSum and the second reaches 0
C3_Witness ==
    \E n \in FedStacked :
        /\ Len(Val(fed[n].e.yVals)) = 2
        /\ \A k \in 1..2 : Val(fed[n].e.yVals)[k] < 0
        /\ phaseY > 0
        /\ fed[n].n = 2
        /\ buffer[fed[n].first].left = (0 - SumOfSign(Val(fed[n].e.yVals), TRUE)) * phaseY
        /\ buffer[fed[n].first].right = buffer[fed[n].first + 1].left
        /\ buffer[fed[n].first + 1].right = 0

\* C10: a build never reads an index at or beyond the entry count the data
\* set has at the time of the read.
C10_NoReadBeyondCount == ~readBeyond

\* --------------------------------------------------- claims: null entries

\* C4: a build skips a null entry inside the scanned range: it raises no
\* failure and still draws the other entries of the range that lie inside
\* the viewport; a data set without entries draws nothing and raises no
\* failure.
C4_NullEntrySkipped ==
    /\ pcB # "failed"
    /\ (pcB = "done" /\ Len(bubbleSet.entries) = 0) => canvas = <<>>
    /\ pcB = "done" => \A n \in DOMAIN canvas : ~IsNull(bubbleSet.entries[canvas[n].j + 1])

\* ------------------------------------------------------- claims: bubbles

\* the entry at index j of the data set, the reference size of the build and
\* the largest size of the data set
BubbleAt(j) == Val(bubbleSet.entries[j + 1])
ReferenceSize ==
    Min(contentRect.bottom - contentRect.top,
        Abs(pixelX(scroll, 1) - pixelX(scroll, 0)))
MaxSizeOfSet == getMaxSize(bubbleSet.entries)

\* v is k times the size the normalization rule gives an entry of this size:
\* reference * sqrt(size / maxSize) when normalized, size * reference when not
IsScaledSize(v, k, entrySize) ==
    IF bubbleSet.normalizeSize
    THEN /\ v >= 0
         /\ v * v * MaxSizeOfSet = k * k * ReferenceSize * ReferenceSize * entrySize
    ELSE v = k * entrySize * ReferenceSize

ScanRange == mXBounds.min..(mXBounds.min + mXBounds.range)
NullFreeUpTo(j) ==
    \A k \in mXBounds.min..j :
        k < Len(bubbleSet.entries) /\ ~IsNull(bubbleSet.entries[k + 1])
CentreX(j) == pixelX(scroll, j)
CentreY(j) == pixelY(BubbleAt(j).y * animPhaseY)
ShapeSize(j) ==
    getShapeSize(BubbleAt(j).size, MaxSizeOfSet, ReferenceSize,
                 bubbleSet.normalizeSize)
AboveTop(j) ==
    2 * CentreY(j) + ShapeSize(j) * PhaseDen < 2 * contentRect.top * PhaseDen
BelowBottom(j) ==
    2 * CentreY(j) - ShapeSize(j) * PhaseDen > 2 * contentRect.bottom * PhaseDen
LeftOfLeft(j) == 2 * CentreX(j) + ShapeSize(j) < 2 * contentRect.left
BeyondRight(j) == 2 * CentreX(j) - ShapeSize(j) > 2 * contentRect.right
InView(j) ==
    ~AboveTop(j) /\ ~BelowBottom(j) /\ ~LeftOfLeft(j) /\ ~BeyondRight(j)
DrawnIndexes == {canvas[n].j : n \in DOMAIN canvas}

StopsBeyondRight(j) == BeyondRight(j)
StopsAtRightCheck(j) == ~AboveTop(j) /\ ~BelowBottom(j) /\ BeyondRight(j)

\* the circles of a build, given which entries stop the scan (every entry
\* beyond the right edge, or only those the right check is reached for): an
\* entry is drawn exactly when it passes the four checks and no earlier index
\* of the range stopped the scan; circles are drawn in index order, once
\* each, at the centre and with the radius of their entry
ScanDraws(rightAlone) ==
    LET Stops(k) == IF rightAlone THEN StopsBeyondRight(k)
                    ELSE StopsAtRightCheck(k)
    IN
    pcB # "idle" =>
        /\ \A j \in ScanRange :
              NullFreeUpTo(j) =>
                  (j \in DrawnIndexes <=>
                      /\ InView(j)
                      /\ \A k \in mXBounds.min..(j - 1) : ~Stops(k))
        /\ \A n \in DOMAIN canvas :
              /\ canvas[n].j \in ScanRange
              /\ NullFreeUpTo(canvas[n].j)
              /\ canvas[n].x = CentreX(canvas[n].j)
              /\ canvas[n].y = CentreY(canvas[n].j)
              /\ canvas[n].r = ShapeSize(canvas[n].j)
        /\ \A m, n \in DOMAIN canvas : m < n => canvas[m].j < canvas[n].j

\* C12 as stated: an entry entirely outside at the top, bottom or left is
\* skipped and the scan goes on; every entry entirely beyond the right edge
\* stops the scan, so no later index is drawn; every circle drawn passed
\* the four checks.
C12_BeyondRightStops == ScanDraws(TRUE)

\* C12 amended: an entry entirely outside at the top, bottom or left is
\* skipped and the scan goes on, also when its circle lies beyond the right
\* edge as well; an entry that passes the top, bottom and left checks and
\* lies entirely beyond the right edge stops the scan, so no later index is
\* drawn; every circle drawn passed the four checks.
C12_RightCheckStops == ScanDraws(FALSE)

\* C12 witness: the scan stopped at an entry beyond the right edge and left
\* a later entry of the range undrawn that passes all four checks
C12_Witness ==
    /\ pcB = "done"
    /\ \E k, j \in ScanRange :
          /\ k < j
          /\ NullFreeUpTo(j)
          /\ StopsAtRightCheck(k)
          /\ InView(j)
          /\ j \notin DrawnIndexes

\* ----------------------------------------------------- claims: groupBars

\* C13: groupBars invoked while no data is attached raises an error and
\* performs neither the grouping nor notifyDataSetChanged, and the chart's
\* state is unchanged; invoked with data attached it calls the grouping of
\* the data object and then notifyDataSetChanged, once each, in that order.
C13_GroupBars ==
    [][(pcG = "idle" /\ pcG' # "idle") =>
          IF IsNull(mData)
          THEN /\ pcG' = "threw"
               /\ groupCalls' = groupCalls
               /\ UNCHANGED varsHigh
          ELSE /\ pcG' = "done"
               /\ mData' = mData
               /\ Len(groupCalls') = Len(groupCalls) + 2
               /\ SubSeq(groupCalls', 1, Len(groupCalls)) = groupCalls
               /\ groupCalls'[Len(groupCalls) + 1].op = "BarData.groupBars"
               /\ groupCalls'[Len(groupCalls) + 1].on = Val(mData)
               /\ groupCalls'[Len(groupCalls) + 2].op = "notifyDataSetChanged"]_vars

\* C13 witness: groupBars was invoked on a chart without data, threw, and
\* made no call
C13_Witness == pcG = "threw" /\ IsNull(mData) /\ groupCalls = <<>>

====
